---- MODULE Spec2Model ----
(***************************************************************************)
(* A model of the DMARC report pipeline of this repository:                *)
(*   - classify_dmarc_failures.py : selection of unclassified failures,    *)
(*     classification through the reasoning service, partial update;       *)
(*   - import_to_opensearch.py    : report loader, document transformer,   *)
(*     index manager, bulk writer.                                         *)
(* The document store and the reasoning service are the environment: each  *)
(* call to them is one atomic step, and runs interleave at these calls.    *)
(***************************************************************************)
EXTENDS Integers, Sequences, FiniteSets, TLC

VARIABLES
    store,      \* document store: doc id -> [_index, _source]
    now,        \* wall clock, in days
    pc,         \* classification run -> position in main()
    documents,  \* classification run -> hits returned by the selection query
    cur,        \* classification run -> position in the loop over documents
    analysis,   \* classification run -> result of classify_failure
    stats,      \* classification run -> the run's counters
    exitCode,   \* classification run -> value returned by main()
    calls,      \* history: service and update calls issued by the current run
    atQuery,    \* history: the store and clock the run's query was evaluated on
    writer,     \* history: doc id -> the run in progress whose update it last took
    failed,     \* history: doc ids that ended FAILED in the current run
    carried,    \* history: doc ids that ended FAILED in the run completed last
    input,      \* loader: how the file text was put together (history)
    content,    \* loader: the text of the file
    loaded,     \* loader: what load_json_file returned
    files,      \* import: the text of aggregate.json and of forensic.json
    indices,    \* import: the indices of the store, name -> mapping kind
    pcI,        \* import: position in main() of import_to_opensearch.py
    kind,       \* import: the import function in progress
    reports,    \* import: import_*_reports.reports
    index_name, \* import: import_*_reports.index_name
    actions,    \* import: import_*_reports.actions
    sent,       \* import: actions handed to the store so far by bulk()
    success,    \* import: bulk()'s count of indexed documents
    errors,     \* import: bulk()'s list of failed items, as a count
    result,     \* import: kind -> what the import function returned
    exitI,      \* import: exit status of the script
    imports,    \* history: runs of the import script started
    ensureLog,  \* history: the calls of create_index_mapping
    committed,  \* history: kind -> documents this run put into the store
    response_text,  \* classify_failure alone: the service's answer
    returned        \* classify_failure alone: what it returned

clsVars == <<store, now, pc, documents, cur, analysis, stats, exitCode,
             calls, atQuery, writer, failed, carried>>

loadVars == <<input, content, loaded>>

unitVars == <<response_text, returned>>

runVars == <<pc, documents, cur, analysis, stats, exitCode,
             calls, atQuery, writer, failed, carried>>

ingVars == <<files, indices, pcI, kind, reports, index_name, actions, sent,
             success, errors, result, exitI, imports, ensureLog, committed>>

vars == <<store, now, pc, documents, cur, analysis, stats, exitCode,
          calls, atQuery, writer, failed, carried, input, content, loaded,
          files, indices, pcI, kind, reports, index_name, actions, sent,
          success, errors, result, exitI, imports, ensureLog, committed,
          response_text, returned>>

-----------------------------------------------------------------------------
(* Bounds of the model *)

MaxDocs == 3        \* documents the store can hold
MaxShared == 1      \* documents the store holds when two runs overlap
MaxQueue == 2       \* documents the store holds when one run is followed to its end
MaxReports == 2     \* reports in one array of an input file
MaxImports == 2     \* runs of the import script in one behaviour
ChunkSize == 2      \* chunk_size of the bulk helper (500 in the program)
BATCH_SIZE == 2     \* page size of the selection query (100 in the program)

(* Program constants *)

LOOKBACK_DAYS == 30

DocIds == 1..MaxDocs
Runs == {"A", "B"}          \* two invocations of the script may overlap

OPENSEARCH_INDEX_PREFIX == "dmarcdmarc_aggregate"

Today == 40                 \* the clock at the start, in days
Later == 65                 \* the clock after time has passed

MonthOfDay(day) == day \div 30

-----------------------------------------------------------------------------
(* Small helpers *)

Min(a, b) == IF a < b THEN a ELSE b

RECURSIVE SortedSeq(_)
SortedSeq(S) ==
    IF S = {} THEN <<>>
    ELSE LET m == CHOOSE x \in S : \A y \in S : x <= y
         IN  <<m>> \o SortedSeq(S \ {m})

Range(s) == {s[k] : k \in 1..Len(s)}

-----------------------------------------------------------------------------
(* The document store as classify_dmarc_failures.py sees it *)

Index(prefix, month) == [prefix |-> prefix, month |-> month]

\* A stored aggregate document, reduced to the fields the selection query
\* reads and one field (header_from) that no step of a run may touch.
Source(dmarc, spf, dkim, day) ==
    [passed_dmarc |-> dmarc, spf_aligned |-> spf, dkim_aligned |-> dkim,
     date_begin |-> day, header_from |-> "example.com"]

\* Verdicts the reasoning service can answer with (ClassificationVerdict).
VerdictA == [status |-> "OK", classification |-> "FORWARDING", risk_level |-> "low"]
VerdictB == [status |-> "CRITICAL", classification |-> "SPOOFING", risk_level |-> "high"]

\* A JSON object the service can answer with as well: not of that shape.
VerdictC == [status |-> "banana", note |-> "n/a"]

Stamp(v, t) == [k \in DOMAIN v \cup {"analyzed_at"} |->
                    IF k = "analyzed_at" THEN t ELSE v[k]]

\* Documents the store may hold when a behaviour starts.
StoredDocs ==
    { [_index |-> Index(OPENSEARCH_INDEX_PREFIX, 1),
       _source |-> Source(FALSE, TRUE, TRUE, 38)],          \* DMARC failure, recent
      [_index |-> Index(OPENSEARCH_INDEX_PREFIX, 0),
       _source |-> Source(TRUE, FALSE, TRUE, 12)],          \* SPF misaligned, about to age out
      [_index |-> Index(OPENSEARCH_INDEX_PREFIX, 1),
       _source |-> Source(TRUE, TRUE, TRUE, 38)],           \* fully aligned
      [_index |-> Index(OPENSEARCH_INDEX_PREFIX, 1),
       _source |-> Source(FALSE, TRUE, TRUE, 38) @@
                   [ai_analysis |-> Stamp(VerdictA, 39)]],  \* classified earlier
      [_index |-> Index("other", 1),
       _source |-> Source(FALSE, TRUE, TRUE, 38)] }         \* outside the index pattern

HasVerdict(doc) == "ai_analysis" \in DOMAIN doc._source

-----------------------------------------------------------------------------
(* query_unclassified_failures *)

Term(src, field, value) == field \in DOMAIN src /\ src[field] = value

\* Mutant: the exists clause names a field no document has.
ExistsMisspelt(src, field) == "ai-analysis" \in DOMAIN src

Exists(src, field) == field \in DOMAIN src

RangeGte(src, field, low) == field \in DOMAIN src /\ src[field] >= low

IndexMatches(index) == index.prefix = OPENSEARCH_INDEX_PREFIX

\* bool.should with minimum_should_match = 1
ShouldMatch(src) ==
    \/ Term(src, "passed_dmarc", FALSE)
    \/ Term(src, "spf_aligned", FALSE)
    \/ Term(src, "dkim_aligned", FALSE)

\* Mutant: the query without its must_not clause.
MatchesAnyVerdict(doc, t) ==
    /\ IndexMatches(doc._index)
    /\ ShouldMatch(doc._source)
    /\ RangeGte(doc._source, "date_begin", t - LOOKBACK_DAYS)

Matches(doc, t) ==
    /\ IndexMatches(doc._index)
    /\ ShouldMatch(doc._source)
    /\ ~Exists(doc._source, "ai_analysis")
    /\ RangeGte(doc._source, "date_begin", t - LOOKBACK_DAYS)

Eligible(st, t) == {d \in DOMAIN st : Matches(st[d], t)}

\* A document as import_aggregate_reports writes it under its default
\* prefix, from a record with an alignment failure and a report begin-date
\* inside the lookback window, and without a verdict.
IngestedFailure(doc, t) ==
    /\ doc._index.prefix = "dmarc-aggregate"
    /\ Term(doc._source, "report_type", "aggregate")
    /\ \/ Term(doc._source, "spf_aligned", FALSE)
       \/ Term(doc._source, "dkim_aligned", FALSE)
       \/ Term(doc._source, "dmarc_aligned", FALSE)
    /\ ~Exists(doc._source, "ai_analysis")
    /\ doc._source.begin_date.day >= t - LOOKBACK_DAYS

Due(st, t) == {d \in DOMAIN st : IngestedFailure(st[d], t)}

\* Mutant: a page one document short.
PageSizeShort(n) == Min(n, BATCH_SIZE - 1)

PageSize(n) == Min(n, BATCH_SIZE)

Hit(st, d) == [_id |-> d, _index |-> st[d]._index, _source |-> st[d]._source]

HitSeq(st, S) == LET ids == SortedSeq(S)
                 IN  [k \in 1..Len(ids) |-> Hit(st, ids[k])]

\* The store answers with at most "size" of the matching documents; which
\* ones, when more match, is the store's choice.
Search(st, t) ==
    LET E == Eligible(st, t)
    IN  {HitSeq(st, S) : S \in {T \in SUBSET E : Cardinality(T) = PageSize(Cardinality(E))}}

\* The values query_unclassified_failures can return: the hits, or [] when
\* client.search raised.
query_unclassified_failures(st, t, ok) ==
    IF ok THEN Search(st, t) ELSE {<<>>}

HitIds(hits) == {hits[k]._id : k \in 1..Len(hits)}

-----------------------------------------------------------------------------
(* classify_failure *)

None == [none |-> TRUE]

\* A response text is the sequence of its lines.  "{A}" and "{B}" are the
\* one-line JSON texts of VerdictA and VerdictB; "<fence>" stands for the
\* three backticks of a markdown code fence.
FenceLines == {"<fence>json", "<fence>"}

ApiError == [error |-> TRUE]
Text(lines) == [error |-> FALSE, lines |-> lines]

Responses ==
    { ApiError,
      Text(<<"{A}">>),
      Text(<<"<fence>json", "{B}", "<fence>">>),
      Text(<<"Sorry, I cannot classify this.">>) }

\* The same, and the answers that are JSON but no verdict: an object of
\* another shape, a list.
LooseResponses == Responses \cup {Text(<<"{C}">>), Text(<<"[1]">>)}

\* response.content[0].text.strip(): blank lines at both ends go.
RECURSIVE Strip(_)
Strip(lines) ==
    IF lines = <<>> THEN lines
    ELSE IF Head(lines) = "" THEN Strip(Tail(lines))
    ELSE IF lines[Len(lines)] = "" THEN Strip(SubSeq(lines, 1, Len(lines) - 1))
    ELSE lines

\* Mutant: only the opening fence line goes.
StripFenceOpening(lines) ==
    IF lines # <<>> /\ Head(lines) \in FenceLines
    THEN SubSeq(lines, 2, Len(lines))
    ELSE lines

\* if response_text.startswith(fence): lines[1:-1], the first and last line go.
StripFence(lines) ==
    IF lines # <<>> /\ Head(lines) \in FenceLines
    THEN SubSeq(lines, 2, Len(lines) - 1)
    ELSE lines

NonBlank(line) == line # ""

\* The lines of a JSON text: an object on one line ("{A}") or with its
\* members on a line of their own ("{", "A", "}"); "[1]" is a JSON list.
OneLine(obj) ==
    CASE obj = "A" -> <<"{A}">> [] obj = "B" -> <<"{B}">> [] obj = "C" -> <<"{C}">>
      [] obj = "list" -> <<"[1]">>
      [] OTHER -> <<"Sorry, I cannot classify this.">>

Pretty(obj) ==
    IF obj \in {"A", "B", "C"} THEN <<"{", obj, "}">> ELSE OneLine(obj)

ObjectOf(obj) ==
    CASE obj = "A" -> VerdictA [] obj = "B" -> VerdictB [] obj = "C" -> VerdictC

\* json.loads on the joined lines: the parsed value (blank lines between the
\* tokens do not matter), or JSONDecodeError.
JsonLoads(lines) ==
    LET body == SelectSeq(lines, NonBlank)
    IN  IF \E obj \in {"A", "B", "C"} : body \in {OneLine(obj), Pretty(obj)}
        THEN [ok |-> TRUE, dict |-> TRUE,
              value |-> ObjectOf(CHOOSE obj \in {"A", "B", "C"} :
                                    body \in {OneLine(obj), Pretty(obj)})]
        ELSE IF body = OneLine("list")
        THEN [ok |-> TRUE, dict |-> FALSE, value |-> <<1>>]
        ELSE [ok |-> FALSE]

\* The ai_analysis object, or None when the call or the parse failed, or
\* when the parsed value is no dict (the item assignment raises TypeError).
classify_failure(response, t) ==
    IF response.error THEN None
    ELSE LET parsed == JsonLoads(StripFence(Strip(response.lines)))
         IN  IF parsed.ok /\ parsed.dict THEN Stamp(parsed.value, t) ELSE None

-----------------------------------------------------------------------------
(* update_document_with_analysis *)

\* client.update with body {"doc": {"ai_analysis": analysis}}: a partial
\* update, which merges the given object into the stored one field by field.
MergeObject(old, new) ==
    [k \in DOMAIN old \cup DOMAIN new |-> IF k \in DOMAIN new THEN new[k] ELSE old[k]]

\* Mutant: the verdict goes to a field the selection query does not test.
PartialUpdateOtherField(doc, a) ==
    [doc EXCEPT !._source = [k \in DOMAIN @ \cup {"analysis"} |->
                                IF k = "analysis" THEN a ELSE @[k]]]

PartialUpdate(doc, a) ==
    [doc EXCEPT !._source =
        IF "ai_analysis" \in DOMAIN doc._source
        THEN [doc._source EXCEPT !.ai_analysis = MergeObject(@, a)]
        ELSE doc._source @@ [ai_analysis |-> a]]

\* The store after the call; the call fails (and update_document_with_analysis
\* returns False) when the transport fails or the document is gone.
UpdateSucceeds(st, id, ok) == ok /\ id \in DOMAIN st

update_document_with_analysis(st, id, a, ok) ==
    IF UpdateSucceeds(st, id, ok)
    THEN [st EXCEPT ![id] = PartialUpdate(st[id], a)]
    ELSE st

-----------------------------------------------------------------------------
(* The parts of the state a pipeline does not use stay as they are *)

NotLoaded == [done |-> FALSE, raised |-> FALSE, reports |-> <<>>]

LoadIdle ==
    /\ input = [kind |-> "none"]
    /\ content = <<>>
    /\ loaded = NotLoaded

NotCalled == [done |-> FALSE, value |-> None]

UnitIdle ==
    /\ response_text = [error |-> TRUE]
    /\ returned = NotCalled

Kinds == {"aggregate", "forensic"}

NoResult == [returned |-> FALSE, value |-> 0, failed |-> 0, actions |-> <<>>,
             transport |-> FALSE]

IngRest ==
    /\ pcI = "idle"
    /\ kind = "aggregate"
    /\ reports = <<>>
    /\ index_name = Index("", 0)
    /\ actions = <<>>
    /\ sent = 0
    /\ success = 0
    /\ errors = 0
    /\ result = [k \in Kinds |-> NoResult]
    /\ exitI = -1
    /\ imports = 0
    /\ ensureLog = <<>>
    /\ committed = [k \in Kinds |-> 0]

IngIdle ==
    /\ files = [k \in Kinds |-> <<"<missing>">>]
    /\ indices = << >>
    /\ IngRest

-----------------------------------------------------------------------------
(* main of classify_dmarc_failures.py *)

NoStats == [processed |-> 0, ok |-> 0, attention |-> 0, critical |-> 0, errors |-> 0]
NoCalls == [service |-> 0, update |-> 0]
NoQuery == [done |-> FALSE, ok |-> FALSE, now |-> 0, eligible |-> {},
            classified |-> {}, carried |-> {}, due |-> {}]

\* analysis.get('status', 'UNKNOWN').upper()
Upper(str) ==
    CASE str = "ok" -> "OK"
      [] str = "attention" -> "ATTENTION"
      [] str = "critical" -> "CRITICAL"
      [] OTHER -> str

StatusOf(a) == Upper(IF "status" \in DOMAIN a THEN a.status ELSE "UNKNOWN")

Count(st, a) ==
    LET status == StatusOf(a)
        p == [st EXCEPT !.processed = @ + 1]
    IN  CASE status = "OK" -> [p EXCEPT !.ok = @ + 1]
          [] status = "ATTENTION" -> [p EXCEPT !.attention = @ + 1]
          [] status = "CRITICAL" -> [p EXCEPT !.critical = @ + 1]
          [] OTHER -> p

RunsIdle ==
    /\ pc = [r \in Runs |-> "idle"]
    /\ documents = [r \in Runs |-> <<>>]
    /\ cur = [r \in Runs |-> 0]
    /\ analysis = [r \in Runs |-> None]
    /\ stats = [r \in Runs |-> NoStats]
    /\ exitCode = [r \in Runs |-> -1]
    /\ calls = [r \in Runs |-> NoCalls]
    /\ atQuery = [r \in Runs |-> NoQuery]
    /\ writer = [d \in DocIds |-> "none"]
    /\ failed = [r \in Runs |-> {}]
    /\ carried = {}

ClsInit(ids) ==
    /\ store \in UNION {[D -> StoredDocs] : D \in SUBSET ids}
    /\ now = Today
    /\ RunsIdle
    /\ LoadIdle
    /\ IngIdle
    /\ UnitIdle

\* No document, no classification run.
ClsIdle ==
    /\ store = << >>
    /\ now = Today
    /\ RunsIdle
    /\ UnitIdle

\* main() up to the query: the API key check and the client construction.
Start(r) ==
    /\ pc[r] \in {"idle", "done"}
    /\ writer' = [d \in DocIds |-> IF writer[d] = r THEN "earlier" ELSE writer[d]]
    /\ documents' = [documents EXCEPT ![r] = <<>>]
    /\ cur' = [cur EXCEPT ![r] = 0]
    /\ analysis' = [analysis EXCEPT ![r] = None]
    /\ stats' = [stats EXCEPT ![r] = NoStats]
    /\ calls' = [calls EXCEPT ![r] = NoCalls]
    /\ atQuery' = [atQuery EXCEPT ![r] = NoQuery]
    /\ failed' = [failed EXCEPT ![r] = {}]
    /\ \E key \in BOOLEAN, clients \in BOOLEAN :
          IF ~key
          THEN /\ pc' = [pc EXCEPT ![r] = "done"]
               /\ exitCode' = [exitCode EXCEPT ![r] = 0]
          ELSE IF ~clients
          THEN /\ pc' = [pc EXCEPT ![r] = "done"]
               /\ exitCode' = [exitCode EXCEPT ![r] = 1]
          ELSE /\ pc' = [pc EXCEPT ![r] = "query"]
               /\ exitCode' = [exitCode EXCEPT ![r] = -1]
    /\ UNCHANGED <<store, now, carried>>
    /\ UNCHANGED <<loadVars, ingVars, unitVars>>

\* documents = query_unclassified_failures(os_client); return 0 when empty.
Query(r) ==
    /\ pc[r] = "query"
    /\ \E ok \in BOOLEAN :
       \E hits \in query_unclassified_failures(store, now, ok) :
          /\ documents' = [documents EXCEPT ![r] = hits]
          /\ atQuery' = [atQuery EXCEPT ![r] =
                [done |-> TRUE, ok |-> ok, now |-> now,
                 eligible |-> Eligible(store, now),
                 classified |-> {d \in DOMAIN store : HasVerdict(store[d])},
                 carried |-> carried,
                 due |-> Due(store, now)]]
          /\ IF hits = <<>>
             THEN /\ pc' = [pc EXCEPT ![r] = "done"]
                  /\ exitCode' = [exitCode EXCEPT ![r] = 0]
                  /\ cur' = cur
                  /\ carried' = {}
             ELSE /\ pc' = [pc EXCEPT ![r] = "classify"]
                  /\ cur' = [cur EXCEPT ![r] = 1]
                  /\ UNCHANGED <<exitCode, carried>>
    /\ UNCHANGED <<store, now, analysis, stats, calls, writer, failed>>
    /\ UNCHANGED <<loadVars, ingVars, unitVars>>

\* Mutant: a document that just ended FAILED is tried again.
AdvanceRetrying(r, nowFailed) ==
    IF nowFailed # failed[r]
    THEN /\ pc' = [pc EXCEPT ![r] = "classify"]
         /\ UNCHANGED <<cur, exitCode, carried>>
    ELSE IF cur[r] < Len(documents[r])
    THEN /\ cur' = [cur EXCEPT ![r] = @ + 1]
         /\ pc' = [pc EXCEPT ![r] = "classify"]
         /\ UNCHANGED <<exitCode, carried>>
    ELSE /\ pc' = [pc EXCEPT ![r] = "done"]
         /\ exitCode' = [exitCode EXCEPT ![r] = 0]
         /\ carried' = nowFailed
         /\ cur' = cur

\* The end of one iteration of the loop over documents: the next document, or
\* the summary and return 0.
Advance(r, nowFailed) ==
    IF cur[r] < Len(documents[r])
    THEN /\ cur' = [cur EXCEPT ![r] = @ + 1]
         /\ pc' = [pc EXCEPT ![r] = "classify"]
         /\ UNCHANGED <<exitCode, carried>>
    ELSE /\ pc' = [pc EXCEPT ![r] = "done"]
         /\ exitCode' = [exitCode EXCEPT ![r] = 0]
         /\ carried' = nowFailed
         /\ cur' = cur

\* analysis = classify_failure(anthropic_client, doc); on None count an error
\* and continue with the next document.
ClassifyFrom(r, answers) ==
    /\ pc[r] = "classify"
    /\ \E response \in answers :
          LET a == classify_failure(response, now)
              id == documents[r][cur[r]]._id
          IN  /\ calls' = [calls EXCEPT ![r].service = @ + 1]
              /\ analysis' = [analysis EXCEPT ![r] = a]
              /\ IF a = None
                 THEN /\ stats' = [stats EXCEPT ![r].errors = @ + 1]
                      /\ failed' = [failed EXCEPT ![r] = @ \cup {id}]
                      /\ Advance(r, failed[r] \cup {id})
                 ELSE /\ pc' = [pc EXCEPT ![r] = "update"]
                      /\ UNCHANGED <<stats, failed, cur, exitCode, carried>>
    /\ UNCHANGED <<store, now, documents, atQuery, writer>>
    /\ UNCHANGED <<loadVars, ingVars, unitVars>>

\* The step with a service that answers with a verdict or not at all.
Classify(r) == ClassifyFrom(r, Responses)

\* if update_document_with_analysis(...): count it by status; else an error.
Update(r) ==
    /\ pc[r] = "update"
    /\ \E ok \in BOOLEAN :
          LET id == documents[r][cur[r]]._id
              done == UpdateSucceeds(store, id, ok)
          IN  /\ calls' = [calls EXCEPT ![r].update = @ + 1]
              /\ store' = update_document_with_analysis(store, id, analysis[r], ok)
              /\ IF done
                 THEN /\ stats' = [stats EXCEPT ![r] = Count(@, analysis[r])]
                      /\ writer' = [writer EXCEPT ![id] = r]
                      /\ failed' = failed
                      /\ Advance(r, failed[r])
                 ELSE /\ stats' = [stats EXCEPT ![r].errors = @ + 1]
                      /\ writer' = writer
                      /\ failed' = [failed EXCEPT ![r] = @ \cup {id}]
                      /\ Advance(r, failed[r] \cup {id})
    /\ UNCHANGED <<now, documents, analysis, atQuery>>
    /\ UNCHANGED <<loadVars, ingVars, unitVars>>

\* Time passes between and during runs.
Tick ==
    /\ now = Today
    /\ now' = Later
    /\ UNCHANGED <<store, pc, documents, cur, analysis, stats, exitCode,
                   calls, atQuery, writer, failed, carried>>
    /\ UNCHANGED <<loadVars, ingVars, unitVars>>

\* The scheduled pipeline: one run at a time, one after the other.
Init == ClsInit(DocIds)

Next ==
    \/ Start("A")
    \/ Query("A")
    \/ Classify("A")
    \/ Update("A")
    \/ Tick

Spec == Init /\ [][Next]_vars

\* Two invocations of the script that may overlap (selection and update are
\* not one transaction).
InitOverlap == ClsInit(1..MaxShared)

NextOverlap ==
    \/ \E r \in Runs : Start(r)
    \/ \E r \in Runs : Query(r)
    \/ \E r \in Runs : ClassifyFrom(r, LooseResponses)
    \/ \E r \in Runs : Update(r)

SpecOverlap == InitOverlap /\ [][NextOverlap]_vars

\* One run followed to its end.  Every call to the store and to the service
\* returns or raises (the clients have timeouts), and the script then takes
\* its next step: weak fairness of the steps of the run.
InitRun == ClsInit(1..MaxQueue)

NextRun ==
    \/ Start("A")
    \/ Query("A")
    \/ ClassifyFrom("A", LooseResponses)
    \/ Update("A")

SpecRun ==
    /\ InitRun /\ [][NextRun]_vars
    /\ WF_vars(Query("A"))
    /\ WF_vars(ClassifyFrom("A", LooseResponses))
    /\ WF_vars(Update("A"))

-----------------------------------------------------------------------------
(* classify_failure on its own: one answer of the service, one call *)

\* How an answer is laid out: which JSON text, on one line or several, inside
\* a code fence or not, the fence closed or cut off, blank lines around it.
ResponseInputs ==
    {[error |-> TRUE]} \cup
    [error : {FALSE}, obj : {"A", "B", "C", "list", "prose"}, pretty : BOOLEAN,
     fence : {"none"} \cup FenceLines, closed : BOOLEAN,
     lead : BOOLEAN, trail : BOOLEAN]

Blank(b) == IF b THEN <<"">> ELSE <<>>

\* response.content[0].text, as lines
Render(in) ==
    LET body == IF in.pretty THEN Pretty(in.obj) ELSE OneLine(in.obj)
        fenced == IF in.fence = "none" THEN body
                  ELSE <<in.fence>> \o body \o (IF in.closed THEN <<"<fence>">> ELSE <<>>)
    IN  Blank(in.lead) \o fenced \o Blank(in.trail)

ResponseOf(in) == IF in.error THEN ApiError ELSE Text(Render(in))

Unwrapped(in) == [in EXCEPT !.fence = "none"]

\* A verdict without its analyzed_at stamp.
Unstamped(a) ==
    IF a = None THEN None ELSE [k \in DOMAIN a \ {"analyzed_at"} |-> a[k]]

InitClassify ==
    /\ response_text \in ResponseInputs
    /\ returned = NotCalled
    /\ store = << >>
    /\ now = Today
    /\ RunsIdle
    /\ LoadIdle
    /\ IngIdle

\* analysis = classify_failure(anthropic_client, doc)
CallClassify ==
    /\ ~returned.done
    /\ returned' = [done |-> TRUE,
                    value |-> classify_failure(ResponseOf(response_text), now)]
    /\ UNCHANGED <<response_text, clsVars, loadVars, ingVars>>

NextClassify ==
    \/ CallClassify
    \/ Tick /\ UNCHANGED response_text

SpecClassify == InitClassify /\ [][NextClassify]_vars

\* C13: for an answer whose JSON object stands inside a code fence (an
\* opening fence line, the object, a closing fence line; blank lines around
\* it or not), classify_failure returns what it returns for the same object
\* without the fence, the analyzed_at stamp apart.
C13_FenceMakesNoDifference ==
    (returned.done /\ ~response_text.error) =>
        ((response_text.fence # "none" /\ response_text.closed
            /\ response_text.obj \in {"A", "B", "C"}) =>
            Unstamped(returned.value) =
                Unstamped(classify_failure(ResponseOf(Unwrapped(response_text)), now)))

\* A fenced object on several lines has been turned into its verdict.
C13_Witness ==
    /\ returned.done
    /\ ~response_text.error
    /\ response_text.fence = "<fence>json" /\ response_text.closed
    /\ response_text.pretty /\ response_text.lead
    /\ Unstamped(returned.value) = VerdictA

-----------------------------------------------------------------------------
(* JSON text, as import_to_opensearch.py reads it *)

\* A text is the sequence of its tokens: brackets, braces, the comma, the
\* newline ("nl"), the blank ("sp"), a member key with its colon, a scalar.
WS == {"nl", "sp"}
Keys == {"id:", "records:"}
Scalars == {"r1", "r2", "r3", "x", "y"}

Atom(a) == [t |-> "atom", v |-> a]
Arr(vs) == [t |-> "arr", v |-> vs]
Obj(ms) == [t |-> "obj", v |-> ms]
Member(k, v) == [k |-> k, v |-> v]

RECURSIVE SkipWs(_, _)
SkipWs(s, i) == IF i <= Len(s) /\ s[i] \in WS THEN SkipWs(s, i + 1) ELSE i

JSONDecodeError == [ok |-> FALSE]
Parsed(val, pos) == [ok |-> TRUE, val |-> val, pos |-> pos]

\* json.loads: a strict recursive-descent parse of one value from token i.
RECURSIVE ParseValue(_, _)
RECURSIVE ParseElems(_, _, _)
RECURSIVE ParseMembers(_, _, _)

ParseValue(s, i) ==
    IF i > Len(s) THEN JSONDecodeError
    ELSE IF s[i] = "[" THEN
        LET j == SkipWs(s, i + 1)
        IN  IF j <= Len(s) /\ s[j] = "]" THEN Parsed(Arr(<<>>), j + 1)
            ELSE ParseElems(s, j, <<>>)
    ELSE IF s[i] = "{" THEN
        LET j == SkipWs(s, i + 1)
        IN  IF j <= Len(s) /\ s[j] = "}" THEN Parsed(Obj(<<>>), j + 1)
            ELSE ParseMembers(s, j, <<>>)
    ELSE IF s[i] \in Scalars THEN Parsed(Atom(s[i]), i + 1)
    ELSE JSONDecodeError

ParseElems(s, i, acc) ==
    LET r == ParseValue(s, i)
    IN  IF ~r.ok THEN JSONDecodeError
        ELSE LET j == SkipWs(s, r.pos)
             IN  IF j > Len(s) THEN JSONDecodeError
                 ELSE IF s[j] = "," THEN ParseElems(s, SkipWs(s, j + 1), Append(acc, r.val))
                 ELSE IF s[j] = "]" THEN Parsed(Arr(Append(acc, r.val)), j + 1)
                 ELSE JSONDecodeError

ParseMembers(s, i, acc) ==
    IF i > Len(s) \/ s[i] \notin Keys THEN JSONDecodeError
    ELSE LET r == ParseValue(s, SkipWs(s, i + 1))
         IN  IF ~r.ok THEN JSONDecodeError
             ELSE LET j == SkipWs(s, r.pos)
                      m == Member(s[i], r.val)
                  IN  IF j > Len(s) THEN JSONDecodeError
                      ELSE IF s[j] = "," THEN ParseMembers(s, SkipWs(s, j + 1), Append(acc, m))
                      ELSE IF s[j] = "}" THEN Parsed(Obj(Append(acc, m)), j + 1)
                      ELSE JSONDecodeError

\* json.loads(text): one value, blanks around it, nothing after it.
JsonParse(s) ==
    LET r == ParseValue(s, SkipWs(s, 1))
    IN  IF ~r.ok THEN JSONDecodeError
        ELSE IF SkipWs(s, r.pos) <= Len(s) THEN JSONDecodeError   \* extra data
        ELSE [ok |-> TRUE, val |-> r.val]

\* str.rstrip, str.lstrip, str.strip
RECURSIVE RStrip(_)
RStrip(s) == IF s # <<>> /\ s[Len(s)] \in WS THEN RStrip(SubSeq(s, 1, Len(s) - 1)) ELSE s

LStrip(s) == SubSeq(s, SkipWs(s, 1), Len(s))

StripWs(s) == RStrip(LStrip(s))

\* A match of the pattern  \],\s*\n\s*<open>  at token i: the index of the
\* token <open> that ends it, or 0.  The blank run between the comma and
\* <open> must hold a newline.
\* Mutant: the pattern written without its comma.
SeamEndNoComma(s, i, open) ==
    IF s[i] = "]"
    THEN LET j == SkipWs(s, i + 1)
         IN  IF j <= Len(s) /\ s[j] = open /\ \E k \in (i + 1)..(j - 1) : s[k] = "nl"
             THEN j ELSE 0
    ELSE 0

SeamEnd(s, i, open) ==
    IF s[i] = "]" /\ i + 1 <= Len(s) /\ s[i + 1] = ","
    THEN LET j == SkipWs(s, i + 2)
         IN  IF j <= Len(s) /\ s[j] = open /\ \E k \in (i + 2)..(j - 1) : s[k] = "nl"
             THEN j ELSE 0
    ELSE 0

\* The tokens at which a match starts.  Matches cannot overlap: between its
\* first and last token a match holds the comma and blanks only.
SeamStarts(s, open) == {i \in 1..Len(s) : SeamEnd(s, i, open) > 0}

\* re.sub(pattern, ',\n  <open>', s): what token i contributes to the result
SubPiece(s, open, starts, i) ==
    IF i \in starts THEN <<",", "nl", "sp", "sp", open>>
    ELSE IF \E m \in starts : m < i /\ i <= SeamEnd(s, m, open) THEN <<>>
    ELSE <<s[i]>>

RECURSIVE SubPieces(_, _, _, _, _)
SubPieces(s, open, starts, lo, hi) ==
    IF lo > hi THEN <<>>
    ELSE IF lo = hi THEN SubPiece(s, open, starts, lo)
    ELSE LET mid == (lo + hi) \div 2
         IN  SubPieces(s, open, starts, lo, mid) \o SubPieces(s, open, starts, mid + 1, hi)

ReSub(s, open) == SubPieces(s, open, SeamStarts(s, open), 1, Len(s))

\* re.split(pattern, s): the texts before, between and after the matches
ReSplit(s, open) ==
    LET ms == SortedSeq(SeamStarts(s, open))
    IN  [k \in 1..(Len(ms) + 1) |->
            SubSeq(s,
                   IF k = 1 THEN 1 ELSE SeamEnd(s, ms[k - 1], open) + 1,
                   IF k = Len(ms) + 1 THEN Len(s) ELSE ms[k] - 1)]

\* What load_json_file makes of a parsed value: a list as it is, a dict
\* wrapped in a list, anything else nothing.
AsReports(val) ==
    IF val.t = "arr" THEN val.v
    ELSE IF val.t = "obj" THEN <<val>>
    ELSE <<>>

\* The fallback of load_json_file: the split parts, patched and parsed one
\* by one; parts that do not parse are skipped.
PatchPart(parts, k) ==
    IF k = 1 THEN Append(RStrip(parts[1]), "]")
    ELSE LET p == <<"[", "{">> \o parts[k]
         IN  IF RStrip(p)[Len(RStrip(p))] = "]" THEN p
             ELSE RStrip(p) \o <<"]", "}">>

RECURSIVE ParseParts(_, _)
ParseParts(parts, k) ==
    IF k > Len(parts) THEN <<>>
    ELSE LET part == StripWs(PatchPart(parts, k))
             r == JsonParse(part)
         IN  (IF part = <<>> \/ ~r.ok THEN <<>> ELSE AsReports(r.val))
             \o ParseParts(parts, k + 1)

SplitAndParse(text) ==
    LET parts == ReSplit(text, "{")
    IN  IF Len(parts) > 1 THEN ParseParts(parts, 1) ELSE <<>>

\* load_json_file on a file that exists, with the text it holds.
LoadContent(text) ==
    LET stripped == StripWs(text)
        first == JsonParse(stripped)
    IN  IF first.ok THEN AsReports(first.val)
        ELSE LET fixed == ReSub(ReSub(stripped, "{"), "[")
                 second == JsonParse(fixed)
             IN  IF second.ok THEN AsReports(second.val)
                 ELSE SplitAndParse(stripped)

NoFile == <<"<missing>">>

\* A file that exists and cannot be read (no permission, a directory, bytes
\* that are no text): open() or f.read() raises, outside every try block.
Unreadable == <<"<unreadable>">>

OpenRaises(file) == file = Unreadable

\* What load_json_file returns, when it returns.
load_json_file(file) == IF file = NoFile THEN <<>> ELSE LoadContent(file)

-----------------------------------------------------------------------------
(* Input files of the report loader *)

ReportIds == {"r1", "r2", "r3"}

\* The text of a report object: r1 on one line, r2 pretty-printed with a
\* nested array of records, r3 on one line with a nested array.
ReportText(id) ==
    CASE id = "r1" -> <<"{", "id:", "r1", "}">>
      [] id = "r2" -> <<"{", "nl", "sp", "id:", "r2", ",", "nl",
                        "sp", "records:", "[", "nl",
                        "sp", "{", "id:", "x", "}", ",", "nl",
                        "sp", "{", "id:", "y", "}", "nl",
                        "]", "nl", "}">>
      [] id = "r3" -> <<"{", "id:", "r3", ",", "records:", "[", "{", "id:", "x", "}", "]", "}">>

\* The value that text denotes.
ReportValue(id) ==
    CASE id = "r1" -> Obj(<<Member("id:", Atom("r1"))>>)
      [] id = "r2" -> Obj(<<Member("id:", Atom("r2")),
                            Member("records:", Arr(<<Obj(<<Member("id:", Atom("x"))>>),
                                                     Obj(<<Member("id:", Atom("y"))>>)>>))>>)
      [] id = "r3" -> Obj(<<Member("id:", Atom("r3")),
                            Member("records:", Arr(<<Obj(<<Member("id:", Atom("x"))>>)>>))>>)

ReportValues(ids) == [k \in 1..Len(ids) |-> ReportValue(ids[k])]

IdSeqs == UNION {[1..n -> ReportIds] : n \in 0..MaxReports}

\* A valid JSON array of the reports ids, on one line or pretty-printed.
RECURSIVE Joined(_, _, _)
Joined(ids, k, sep) ==
    IF k > Len(ids) THEN <<>>
    ELSE (IF k > 1 THEN sep ELSE <<>>) \o ReportText(ids[k]) \o Joined(ids, k + 1, sep)

ArrayText(ids, pretty) ==
    IF ids = <<>> THEN <<"[", "]">>
    ELSE IF pretty
    THEN <<"[", "nl", "sp", "sp">> \o Joined(ids, 1, <<",", "nl", "sp", "sp">>) \o <<"nl", "]">>
    ELSE <<"[">> \o Joined(ids, 1, <<",">>) \o <<"]">>

Indents == {<<>>, <<"sp", "sp">>}

\* Two arrays concatenated by an appending producer.  Seam "{": the first
\* array closed, a comma, a newline, the next object opened (the second
\* array has lost its bracket).  Seam "[": the second array follows whole.
SeamText(a, prettyA, b, prettyB, indent, open) ==
    ArrayText(a, prettyA) \o <<",", "nl">> \o indent \o
        (IF open = "{" THEN LStrip(Tail(ArrayText(b, prettyB))) ELSE ArrayText(b, prettyB))

\* Texts that are no JSON and that the repair cannot mend: an empty file, a
\* truncated array, a seam after which nothing parses, a lone scalar (valid
\* JSON, but neither a list nor a dict).
Garbage ==
    { <<>>,
      <<"nl", "sp">>,
      <<"[", "{", "id:">>,
      <<"]", ",", "nl", "{", "id:", "r1">>,
      <<"[", "]", ",", "nl", "[", "{", "id:">>,
      <<"x">> }

LoaderInputs ==
    {[kind |-> "array", a |-> a, prettyA |-> p] : a \in IdSeqs, p \in BOOLEAN}
    \cup {[kind |-> "object", id |-> id] : id \in ReportIds}
    \cup {[kind |-> "seam", open |-> "{", a |-> a, prettyA |-> pa, b |-> b, prettyB |-> pb,
           indent |-> ind] :
            a \in IdSeqs, pa \in BOOLEAN, b \in IdSeqs \ {<<>>}, pb \in BOOLEAN,
            ind \in Indents}
    \cup {[kind |-> "seam", open |-> "[", a |-> a, prettyA |-> pa, b |-> b, prettyB |-> pb,
           indent |-> ind] :
            a \in IdSeqs, pa \in BOOLEAN, b \in IdSeqs, pb \in BOOLEAN,
            ind \in Indents}
    \cup {[kind |-> "missing"], [kind |-> "unreadable"]}
    \cup {[kind |-> "garbage", text |-> g] : g \in Garbage}

TextOf(in) ==
    CASE in.kind = "array" -> ArrayText(in.a, in.prettyA)
      [] in.kind = "object" -> ReportText(in.id)
      [] in.kind = "seam" -> SeamText(in.a, in.prettyA, in.b, in.prettyB, in.indent, in.open)
      [] in.kind = "missing" -> NoFile
      [] in.kind = "unreadable" -> Unreadable
      [] in.kind = "garbage" -> in.text

LoadInit ==
    /\ input \in LoaderInputs
    /\ content = TextOf(input)
    /\ loaded = NotLoaded

\* reports = load_json_file(json_file)
Load ==
    /\ ~loaded.done
    /\ loaded' = IF OpenRaises(content)
                  THEN [done |-> TRUE, raised |-> TRUE, reports |-> <<>>]
                  ELSE [done |-> TRUE, raised |-> FALSE,
                        reports |-> load_json_file(content)]
    /\ UNCHANGED <<input, content>>

-----------------------------------------------------------------------------
(* Properties of the classification pipeline *)

Verdict(doc) == doc._source.ai_analysis

\* The step is run r's update call for document d.
UpdateOf(r, d) ==
    /\ pc[r] = "update"
    /\ documents[r][cur[r]]._id = d
    /\ calls'[r].update = calls[r].update + 1

\* C1, as claimed: once a verdict is attached to a document, no later step of
\* any classification run changes or replaces it, overlapping runs included.
C1_NeverOverwritten ==
    [][\A d \in DOMAIN store :
          HasVerdict(store[d]) =>
             HasVerdict(store'[d]) /\ Verdict(store'[d]) = Verdict(store[d])]_vars

\* C1, amended: a document never loses its verdict, and the verdict changes
\* only by the update of another run that selected the document before the
\* verdict was attached (last write wins); neither the run that attached it
\* nor a run that queries afterwards changes it.
C1_MonotoneUpToOverlap ==
    [][\A d \in DOMAIN store :
          HasVerdict(store[d]) =>
             /\ HasVerdict(store'[d])
             /\ Verdict(store'[d]) # Verdict(store[d]) =>
                   \E r \in Runs : /\ UpdateOf(r, d)
                                   /\ writer[d] # r
                                   /\ d \notin atQuery[r].classified]_vars

\* A run attached a verdict, and a run that queried afterwards has finished.
C1_Witness ==
    \E d \in DOMAIN store, r \in Runs :
        /\ HasVerdict(store[d])
        /\ writer[d] \notin {"none", r}
        /\ pc[r] = "done"
        /\ atQuery[r].done /\ atQuery[r].ok
        /\ d \in atQuery[r].classified

\* C2: query_unclassified_failures never returns a document that carries
\* ai_analysis, whatever the store holds, and returns nothing when the query
\* fails.
C2_SelectorSkipsClassified ==
    \A r \in Runs :
        atQuery[r].done =>
            /\ \A k \in 1..Len(documents[r]) :
                  "ai_analysis" \notin DOMAIN documents[r][k]._source
            /\ HitIds(documents[r]) \cap atQuery[r].classified = {}
            /\ ~atQuery[r].ok => documents[r] = <<>>

\* A query over a store that holds classified documents returned hits.
C2_Witness ==
    \E r \in Runs :
        /\ atQuery[r].done /\ atQuery[r].ok
        /\ atQuery[r].classified # {}
        /\ documents[r] # <<>>

SoleDocument == Cardinality(DOMAIN store) = 1

\* C3: with one document in the store, passed_dmarc = false and no
\* ai_analysis, a run whose service call and update succeed selects exactly
\* one document and issues exactly one update, the document carries
\* ai_analysis afterwards, and a run that queries after that selects nothing
\* and calls neither the service nor the store's update.
C3_OneDocumentScenario ==
    \A r \in Runs :
        SoleDocument /\ pc[r] = "done" /\ atQuery[r].done =>
            /\ ( /\ atQuery[r].classified = {}
                 /\ \A d \in DOMAIN store : store[d]._source.passed_dmarc = FALSE
                 /\ calls[r].service >= 1
                 /\ stats[r].errors = 0 )
               => /\ Len(documents[r]) = 1
                  /\ calls[r] = [service |-> 1, update |-> 1]
                  /\ stats[r].processed = 1
                  /\ \A d \in DOMAIN store : HasVerdict(store[d])
            /\ atQuery[r].classified = DOMAIN store
               => /\ documents[r] = <<>>
                  /\ calls[r] = NoCalls
                  /\ exitCode[r] = 0

\* The second run of the scenario has finished: the sole document got its
\* verdict from an earlier run, and this run queried after that.
C3_Witness ==
    \E r \in Runs, d \in DOMAIN store :
        /\ SoleDocument
        /\ store[d]._source.passed_dmarc = FALSE
        /\ writer[d] = "earlier"
        /\ pc[r] = "done"
        /\ atQuery[r].done /\ atQuery[r].ok
        /\ atQuery[r].classified = {d}

\* C4, as claimed (in the favourable case: the next run's query succeeds and
\* no time has passed): a document that ended FAILED in the run completed last
\* is selected again by the next run, whatever else the store holds.
C4_AlwaysReselected ==
    \A r \in Runs :
        atQuery[r].done /\ atQuery[r].ok /\ atQuery[r].now = Today =>
            atQuery[r].carried \subseteq HitIds(documents[r])

\* C4, amended: a run attaches no verdict to a document that ends FAILED in
\* it, and the next run selects the document again provided its query
\* succeeds, the document is still without a verdict and inside the lookback
\* window then, and at most BATCH_SIZE documents are eligible.
C4_ReselectedWithinPage ==
    \A r \in Runs :
        /\ \A d \in failed[r] : HasVerdict(store[d]) => writer[d] # r
        /\ atQuery[r].done /\ atQuery[r].ok =>
              \A d \in atQuery[r].carried :
                  ( /\ d \notin atQuery[r].classified
                    /\ store[d]._source.date_begin >= atQuery[r].now - LOOKBACK_DAYS
                    /\ Cardinality(atQuery[r].eligible) <= BATCH_SIZE )
                  => d \in HitIds(documents[r])

\* A document that ended FAILED in the last run was selected again, next to
\* another eligible document.
C4_Witness ==
    \E r \in Runs :
        /\ atQuery[r].done /\ atQuery[r].ok
        /\ atQuery[r].carried # {}
        /\ atQuery[r].carried \subseteq HitIds(documents[r])
        /\ HitIds(documents[r]) \ atQuery[r].carried # {}

\* C12: a run whose selection query failed (store unreachable, credentials
\* refused) ends with exit code 1; exit code 0 is returned only by a run
\* whose query, if it got that far, succeeded.
C12_FailedQueryExitsOne ==
    \A r \in Runs :
        (pc[r] = "done" /\ atQuery[r].done /\ ~atQuery[r].ok) => exitCode[r] = 1

\* The step is run r's update call for document d, and the store took it.
UpdateDone(r, d) ==
    /\ UpdateOf(r, d)
    /\ stats'[r].processed = stats[r].processed + 1

NonVerdict(doc) ==
    [k \in DOMAIN doc._source \ {"ai_analysis"} |-> doc._source[k]]

\* C14: whenever an update of a run is taken, overlapping runs included, the
\* document holds afterwards exactly the verdict that update wrote (no field
\* of an earlier verdict is left in it), and its other fields are as before.
C14_LastWriteWhole ==
    [][\A r \in Runs : \A d \in DOMAIN store :
          UpdateDone(r, d) =>
             /\ HasVerdict(store'[d])
             /\ Verdict(store'[d]) = analysis[r]
             /\ NonVerdict(store'[d]) = NonVerdict(store[d])
             /\ store'[d]._index = store[d]._index]_vars

\* The fixed ClassificationVerdict shape.
WellShaped(a) ==
    /\ {"status", "classification", "risk_level", "analyzed_at"} \subseteq DOMAIN a
    /\ a.status \in {"OK", "ATTENTION", "CRITICAL"}
    /\ a.classification \in {"LEGITIMATE_SERVICE", "FORWARDING", "SPOOFING",
                              "INTERNAL_CONFIG", "UNKNOWN"}
    /\ a.risk_level \in {"low", "medium", "high"}

\* C16: every verdict a run attaches to a document has the fixed shape; an
\* answer that is JSON of another shape ends FAILED and is not written.
C16_VerdictShape ==
    /\ \A d \in DOMAIN store : HasVerdict(store[d]) => WellShaped(Verdict(store[d]))
    /\ \A r \in Runs : pc[r] = "update" => WellShaped(analysis[r])

\* Documents of the run's selection dealt with so far.
Handled(r) == IF pc[r] = "done" THEN Len(documents[r]) ELSE cur[r] - 1

\* The counters of a run in its loop, and at its end.
OnceEach(r) ==
    (atQuery[r].done /\ documents[r] # <<>>) =>
        /\ calls[r].service = IF pc[r] = "update" THEN cur[r] ELSE Handled(r)
        /\ stats[r].processed + stats[r].errors = Handled(r)
        /\ stats[r].errors = Cardinality(failed[r])
        /\ failed[r] \subseteq HitIds(documents[r])
        /\ calls[r].update <= Handled(r)
        /\ stats[r].processed <= calls[r].update

-----------------------------------------------------------------------------
(* Reports: what the texts r1, r2, r3 hold *)

\* A date string: "YYYY-MM-DD HH:MM:SS" (sql), ISO 8601 (iso), a string that
\* is no date (junk), or the empty string / no such key (missing).
Sql(day) == [form |-> "sql", day |-> day]
Iso(day) == [form |-> "iso", day |-> day]
Junk == [form |-> "junk"]
Missing == [form |-> "missing"]

\* report_metadata of the reports, read as aggregate reports.
AggMeta(id) ==
    CASE id = "r1" -> [begin_date |-> Missing, end_date |-> Junk]
      [] id = "r2" -> [begin_date |-> Sql(10), end_date |-> Sql(11)]
      [] id = "r3" -> [begin_date |-> Sql(40), end_date |-> Sql(41)]

\* The records of the aggregate reports.
AggRecord(id, rec) ==
    CASE id = "r2" /\ rec = "x" ->
            [ip_address |-> "not-an-ip",
             alignment |-> [spf |-> FALSE, dkim |-> TRUE, dmarc |-> TRUE],
             interval_begin |-> Sql(10), interval_end |-> Sql(11)]
      [] id = "r2" /\ rec = "y" ->
            [ip_address |-> "192.0.2.2",
             alignment |-> [spf |-> TRUE, dkim |-> TRUE, dmarc |-> TRUE],
             interval_begin |-> Iso(10), interval_end |-> Sql(11)]
      [] OTHER ->
            [ip_address |-> "192.0.2.3",
             alignment |-> [spf |-> TRUE, dkim |-> FALSE, dmarc |-> FALSE],
             interval_begin |-> Missing, interval_end |-> Missing]

\* The same texts read as forensic reports.
ForMeta(id) ==
    CASE id = "r1" -> [arrival_date |-> Missing, begin_date |-> Missing,
                       end_date |-> Missing, source_ip |-> "192.0.2.1"]
      [] id = "r2" -> [arrival_date |-> Sql(10), begin_date |-> Sql(10),
                       end_date |-> Junk, source_ip |-> "192.0.2.2"]
      [] id = "r3" -> [arrival_date |-> Iso(40), begin_date |-> Sql(40),
                       end_date |-> Sql(41), source_ip |-> "192.0.2.3"]

IsDict(val) == val.t = "obj"

\* dict.get(key): the member's value, or no value
HasKey(val, key) == \E i \in 1..Len(val.v) : val.v[i].k = key

Get(val, key) ==
    LET i == CHOOSE j \in 1..Len(val.v) :
                 val.v[j].k = key /\ \A h \in (j + 1)..Len(val.v) : val.v[h].k # key
    IN  val.v[i].v

IdOf(val) == Get(val, "id:").v

\* report.get("records", [])
RecordsOf(report) ==
    IF HasKey(report, "records:") THEN Get(report, "records:").v ELSE <<>>

-----------------------------------------------------------------------------
(* normalize_date, transform_aggregate_record, transform_forensic_record *)

\* Mutant: an ISO value is replaced by the processing time as well.
normalize_date_now(date_str, t) ==
    IF date_str.form = "sql" THEN Iso(date_str.day) ELSE Iso(t)

\* datetime.now().isoformat() for an empty or unparseable string, the ISO
\* rendering of a "YYYY-MM-DD HH:MM:SS" string, an ISO string as it is.
normalize_date(date_str, t) ==
    CASE date_str.form = "missing" -> Iso(t)
      [] date_str.form = "sql" -> Iso(date_str.day)
      [] date_str.form = "iso" -> date_str
      [] OTHER -> Iso(t)

transform_aggregate_record(report, record, t) ==
    LET metadata == AggMeta(IdOf(report))
        rec == AggRecord(IdOf(report), IdOf(record))
    IN  [timestamp |-> normalize_date(metadata.begin_date, t),
         report_id |-> IdOf(report),
         report_type |-> "aggregate",
         begin_date |-> normalize_date(metadata.begin_date, t),
         end_date |-> normalize_date(metadata.end_date, t),
         source_ip |-> rec.ip_address,
         spf_aligned |-> rec.alignment.spf,
         dkim_aligned |-> rec.alignment.dkim,
         dmarc_aligned |-> rec.alignment.dmarc,
         interval_begin |-> normalize_date(rec.interval_begin, t),
         interval_end |-> normalize_date(rec.interval_end, t),
         _source_full |-> [report |-> IdOf(report), record |-> IdOf(record)]]

transform_forensic_record(report, t) ==
    LET metadata == ForMeta(IdOf(report))
    IN  [timestamp |-> normalize_date(metadata.arrival_date, t),
         report_id |-> IdOf(report),
         report_type |-> "forensic",
         begin_date |-> normalize_date(metadata.begin_date, t),
         end_date |-> normalize_date(metadata.end_date, t),
         arrival_date |-> normalize_date(metadata.arrival_date, t),
         source_ip |-> metadata.source_ip,
         _source_full |-> [report |-> IdOf(report), record |-> "-"]]

-----------------------------------------------------------------------------
(* import_aggregate_reports, import_forensic_reports *)

IndexPrefix(k) == IF k = "aggregate" THEN "dmarc-aggregate" ELSE "dmarc-forensic"

\* report_metadata.begin_date of a report, for either kind
BeginDate(k, report) ==
    IF k = "aggregate" THEN AggMeta(IdOf(report)).begin_date
    ELSE ForMeta(IdOf(report)).begin_date

\* The index name: prefix-YYYY.MM of the first report's begin_date when
\* strptime(begin_date.split()[0], "%Y-%m-%d") parses it, of the current
\* month otherwise.
IndexName(k, first_report, t) ==
    LET begin_date == BeginDate(k, first_report)
    IN  IF begin_date.form = "sql"
        THEN Index(IndexPrefix(k), MonthOfDay(begin_date.day))
        ELSE Index(IndexPrefix(k), MonthOfDay(t))

\* Mutant: the index is created without asking whether it exists.
create_index_mapping_unchecked(ix, name, doc_type) ==
    [indices |-> [n \in DOMAIN ix \cup {name} |-> IF n = name THEN doc_type ELSE ix[n]],
     created |-> TRUE]

\* create_index_mapping: the indices afterwards, and whether
\* es.indices.create was called.
create_index_mapping(ix, name, doc_type) ==
    IF name \in DOMAIN ix
    THEN [indices |-> ix, created |-> FALSE]
    ELSE [indices |-> [n \in DOMAIN ix \cup {name} |-> IF n = name THEN doc_type ELSE ix[n]],
          created |-> TRUE]

\* One bulk action. The field at is history, no part of the request: the
\* processing time at which the document was built.
Action(name, doc, t) == [_index |-> name, _source |-> doc, at |-> t]

RECURSIVE AggregateActions(_, _, _, _)
AggregateActions(reps, k, name, t) ==
    IF k > Len(reps) THEN <<>>
    ELSE LET records == RecordsOf(reps[k])
         IN  [j \in 1..Len(records) |->
                 Action(name, transform_aggregate_record(reps[k], records[j], t), t)]
             \o AggregateActions(reps, k + 1, name, t)

ForensicActions(reps, name, t) ==
    [k \in 1..Len(reps) |-> Action(name, transform_forensic_record(reps[k], t), t)]

Actions(k, reps, name, t) ==
    IF k = "aggregate" THEN AggregateActions(reps, 1, name, t)
    ELSE ForensicActions(reps, name, t)

\* The mapping types source_ip as ip: the store rejects a document whose
\* source_ip is no address.
Rejected(action) == action._source.source_ip = "not-an-ip"

Accepted(action) == ~Rejected(action)

Chunk(acts, from) == SubSeq(acts, from + 1, Min(from + ChunkSize, Len(acts)))

\* Mutant: the chunk is given up at its first rejected item.
BulkChunkAborting(chunk) ==
    LET bad == {i \in 1..Len(chunk) : Rejected(chunk[i])}
        upto == IF bad = {} THEN Len(chunk)
                ELSE (CHOOSE i \in bad : \A j \in bad : i <= j) - 1
    IN  [stored |-> SubSeq(chunk, 1, upto), errors |-> IF bad = {} THEN 0 ELSE 1]

\* One bulk request with raise_on_error=False: every accepted item is
\* indexed, every rejected one is listed as failed.
BulkChunk(chunk) ==
    [stored |-> SelectSeq(chunk, Accepted),
     errors |-> Len(chunk) - Len(SelectSeq(chunk, Accepted))]

AggFiles ==
    { NoFile,
      ArrayText(<<"r2", "r3">>, FALSE),
      ArrayText(<<"r3", "r2">>, TRUE),
      ArrayText(<<"r1", "r3">>, FALSE),
      ArrayText(<<"r2", "r3", "r2">>, FALSE),
      SeamText(<<"r2">>, FALSE, <<"r3">>, FALSE, <<>>, "{"),
      ReportText("r3"),
      <<"[", "{", "id:">> }

ForFiles == { NoFile, Unreadable, ArrayText(<<"r1", "r3">>, FALSE) }

IngInit ==
    /\ files \in [aggregate : AggFiles, forensic : ForFiles]
    /\ indices \in {<< >>, [n \in {Index("dmarc-aggregate", 0)} |-> "aggregate"]}
    /\ IngRest
    /\ store = << >>
    /\ now = Today

\* main() up to the imports: the client and the connection check.
IStart ==
    /\ pcI \in {"idle", "done"}
    /\ imports < MaxImports
    /\ imports' = imports + 1
    /\ result' = [k \in Kinds |-> NoResult]
    /\ committed' = [k \in Kinds |-> 0]
    /\ reports' = <<>>
    /\ actions' = <<>>
    /\ sent' = 0
    /\ success' = 0
    /\ errors' = 0
    /\ kind' = "aggregate"
    /\ \E connected \in BOOLEAN :
          IF connected
          THEN pcI' = "load" /\ exitI' = -1
          ELSE pcI' = "done" /\ exitI' = 1
    /\ UNCHANGED <<files, indices, index_name, ensureLog, store, now>>

\* The import function of the kind in progress returns: main() goes on with
\* the forensic import, or with the summary.
Return(value, failedItems, acts, transport) ==
    /\ result' = [result EXCEPT ![kind] =
          [returned |-> TRUE, value |-> value, failed |-> failedItems,
           actions |-> acts, transport |-> transport]]
    /\ IF kind = "aggregate"
       THEN kind' = "forensic" /\ pcI' = "load" /\ exitI' = exitI
       ELSE kind' = kind /\ pcI' = "done" /\ exitI' = 0

\* import_*_reports up to the index name.
ILoad ==
    /\ pcI = "load"
    /\ LET reps == load_json_file(files[kind])
       IN  IF OpenRaises(files[kind])
           THEN /\ pcI' = "done" /\ exitI' = 1       \* OSError, not caught
                /\ UNCHANGED <<reports, index_name, result, kind>>
           ELSE IF reps = <<>>
           THEN /\ Return(0, 0, <<>>, FALSE)
                /\ UNCHANGED <<reports, index_name>>
           ELSE IF ~IsDict(reps[1])
           THEN /\ pcI' = "done" /\ exitI' = 1       \* AttributeError
                /\ UNCHANGED <<reports, index_name, result, kind>>
           ELSE /\ reports' = reps
                /\ index_name' = IndexName(kind, reps[1], now)
                /\ pcI' = "ensure"
                /\ UNCHANGED <<result, kind, exitI>>
    /\ UNCHANGED <<files, indices, actions, sent, success, errors, imports,
                   ensureLog, committed, store, now>>

\* create_index_mapping(es, index_name, kind), then the actions are built.
IEnsure ==
    /\ pcI = "ensure"
    /\ LET made == create_index_mapping(indices, index_name, kind)
           acts == Actions(kind, reports, index_name, now)
       IN  /\ indices' = made.indices
           /\ ensureLog' = Append(ensureLog,
                 [name |-> index_name, existed |-> index_name \in DOMAIN indices,
                  created |-> made.created, kept |-> made.indices = indices])
           /\ actions' = acts
           /\ IF acts = <<>>
              THEN Return(0, 0, <<>>, FALSE)
              ELSE pcI' = "bulk" /\ UNCHANGED <<result, kind, exitI>>
    /\ sent' = 0
    /\ success' = 0
    /\ errors' = 0
    /\ UNCHANGED <<files, reports, index_name, imports, committed, store, now>>

\* One chunk of bulk(es, actions, chunk_size, raise_on_error=False): the
\* request fails as a whole (the exception leaves bulk() and the import
\* function returns 0), or the store takes the items it accepts.
IBulk ==
    /\ pcI = "bulk"
    /\ \E transportOk \in BOOLEAN :
          IF ~transportOk
          THEN /\ Return(0, errors, actions, TRUE)
               /\ UNCHANGED <<store, sent, success, errors, committed>>
          ELSE LET chunk == Chunk(actions, sent)
                   r == BulkChunk(chunk)
               IN  /\ store' = store \o r.stored
                   /\ sent' = sent + Len(chunk)
                   /\ success' = success + Len(r.stored)
                   /\ errors' = errors + r.errors
                   /\ committed' = [committed EXCEPT ![kind] = @ + Len(r.stored)]
                   /\ IF sent + Len(chunk) = Len(actions)
                      THEN Return(success + Len(r.stored), errors + r.errors, actions, FALSE)
                      ELSE UNCHANGED <<result, kind, pcI, exitI>>
    /\ UNCHANGED <<files, indices, reports, index_name, actions, imports,
                   ensureLog, now>>

InitIngest ==
    /\ IngInit
    /\ RunsIdle
    /\ LoadIdle
    /\ UnitIdle

NextIngest ==
    \/ IStart /\ UNCHANGED <<runVars, loadVars, unitVars>>
    \/ ILoad /\ UNCHANGED <<runVars, loadVars, unitVars>>
    \/ IEnsure /\ UNCHANGED <<runVars, loadVars, unitVars>>
    \/ IBulk /\ UNCHANGED <<runVars, loadVars, unitVars>>
    \/ Tick

SpecIngest == InitIngest /\ [][NextIngest]_vars

-----------------------------------------------------------------------------
(* Both scripts on one store: the import, and classification runs that may
   start at any time. *)

InitPipeline ==
    /\ files = [aggregate |-> ArrayText(<<"r2", "r3">>, FALSE), forensic |-> NoFile]
    /\ indices = << >>
    /\ IngRest
    /\ store \in {<< >>} \cup {<<doc>> : doc \in StoredDocs}
    /\ now = Today
    /\ RunsIdle
    /\ LoadIdle
    /\ UnitIdle

NextPipeline ==
    \/ IStart /\ UNCHANGED <<runVars, loadVars, unitVars>>
    \/ ILoad /\ UNCHANGED <<runVars, loadVars, unitVars>>
    \/ IEnsure /\ UNCHANGED <<runVars, loadVars, unitVars>>
    \/ IBulk /\ UNCHANGED <<runVars, loadVars, unitVars>>
    \/ Start("A")
    \/ Query("A")
    \/ Classify("A")
    \/ Update("A")
    \/ Tick

SpecPipeline == InitPipeline /\ [][NextPipeline]_vars

-----------------------------------------------------------------------------
(* The report loader on its own: one file, loaded once *)

InitLoad ==
    /\ LoadInit
    /\ ClsIdle
    /\ IngIdle

NextLoad == Load /\ UNCHANGED <<clsVars, ingVars, unitVars>>

SpecLoad == InitLoad /\ [][NextLoad]_vars

-----------------------------------------------------------------------------
(* Properties of the report loader *)

\* C10: for two valid JSON arrays of report objects concatenated with the
\* seam "],\n{" (with or without indentation before the brace),
\* load_json_file returns the elements of the first array followed by those
\* of the second, each once, in their order.
C10_SeamUnion ==
    (loaded.done /\ input.kind = "seam" /\ input.open = "{") =>
        loaded.reports = ReportValues(input.a \o input.b)

\* C11: load_json_file never raises; for a missing file, for a file that
\* cannot be read, and for a text that can be neither parsed nor repaired it
\* returns the empty list.
C11_NeverRaises ==
    loaded.done =>
        /\ ~loaded.raised
        /\ input.kind \in {"missing", "unreadable", "garbage"} => loaded.reports = <<>>

\* C11, the part the code keeps: a missing file and a text beyond repair
\* give the empty list.
C11_EmptyWhenReturning ==
    (loaded.done /\ input.kind \in {"missing", "garbage"}) =>
        ~loaded.raised /\ loaded.reports = <<>>

\* C17: for two valid JSON arrays separated by the seam "],\n[" (the second
\* array following whole), load_json_file returns the elements of the first
\* array followed by those of the second.
C17_SeamUnionArrays ==
    (loaded.done /\ input.kind = "seam" /\ input.open = "[") =>
        loaded.reports = ReportValues(input.a \o input.b)

\* A seam file of two non-empty arrays has been loaded.
C10_Witness ==
    /\ loaded.done /\ input.kind = "seam" /\ input.open = "{"
    /\ input.a # <<>> /\ input.b # <<>>
    /\ Len(loaded.reports) = Len(input.a) + Len(input.b)
    /\ ~JsonParse(content).ok


-----------------------------------------------------------------------------
(* Properties of the ingestion run *)

\* The documents the store has taken and the ones built for the import in
\* progress.
Entries == Range(store) \cup Range(actions)

\* report_metadata.begin_date of the report a document was built from
BeginOf(doc) ==
    IF doc.report_type = "aggregate"
    THEN AggMeta(doc._source_full.report).begin_date
    ELSE ForMeta(doc._source_full.report).begin_date

IsDate(date_str) == date_str.form \in {"sql", "iso"}

\* Every date field the transformer reads for this document is a date.
DatesParse(doc) ==
    IF doc.report_type = "aggregate"
    THEN LET metadata == AggMeta(doc._source_full.report)
             rec == AggRecord(doc._source_full.report, doc._source_full.record)
         IN  /\ IsDate(metadata.begin_date) /\ IsDate(metadata.end_date)
             /\ IsDate(rec.interval_begin) /\ IsDate(rec.interval_end)
    ELSE LET metadata == ForMeta(doc._source_full.report)
         IN  /\ IsDate(metadata.arrival_date)
             /\ IsDate(metadata.begin_date) /\ IsDate(metadata.end_date)

SameInput(a, b) ==
    /\ a._source.report_type = b._source.report_type
    /\ a._source._source_full = b._source._source_full

\* C5: every stored document lies in the index named by the prefix of its
\* kind and the year-month of its own report's begin-date (stated for the
\* reports whose begin-date is a "YYYY-MM-DD HH:MM:SS" date, where no
\* fallback to the processing month is in play).
C5_OwnPartition ==
    \A i \in 1..Len(store) :
        LET begin_date == BeginOf(store[i]._source)
        IN  begin_date.form = "sql" =>
                store[i]._index = Index(IndexPrefix(store[i]._source.report_type),
                                        MonthOfDay(begin_date.day))

\* C6: create_index_mapping calls es.indices.create exactly when the index
\* does not exist; a call for an existing index leaves the indices as they
\* are; of two calls with the same name the later one never creates.
C6_CreateOnce ==
    \A j \in 1..Len(ensureLog) :
        /\ ensureLog[j].created = ~ensureLog[j].existed
        /\ ensureLog[j].existed => ensureLog[j].kept
        /\ \A i \in 1..(j - 1) :
              ensureLog[i].name = ensureLog[j].name =>
                  ~ensureLog[j].created /\ ensureLog[j].kept

C6_Witness ==
    \E i, j \in 1..Len(ensureLog) :
        /\ i < j
        /\ ensureLog[i].name = ensureLog[j].name
        /\ ensureLog[i].created
        /\ ~ensureLog[j].created

Count7(acts) == Len(SelectSeq(acts, Accepted))

\* C7: rejected documents cost only themselves. While the batches are sent,
\* and when the import returns without a transport failure, the successes
\* are the accepted documents among those submitted, the failures the
\* rejected ones, and every accepted document is in the store.
C7_RejectedItemsIsolated ==
    /\ pcI = "bulk" =>
          /\ success = Count7(SubSeq(actions, 1, sent))
          /\ errors = sent - success
          /\ committed[kind] = success
    /\ \A k \in Kinds :
          (result[k].returned /\ ~result[k].transport) =>
              /\ result[k].value = Count7(result[k].actions)
              /\ result[k].failed = Len(result[k].actions) - result[k].value
              /\ committed[k] = result[k].value
              /\ \A a \in Range(result[k].actions) :
                    Accepted(a) => a \in Range(store)

C7_Witness ==
    /\ result["aggregate"].returned
    /\ ~result["aggregate"].transport
    /\ Len(result["aggregate"].actions) > ChunkSize
    /\ Rejected(result["aggregate"].actions[1])
    /\ result["aggregate"].failed = 1
    /\ result["aggregate"].value = Len(result["aggregate"].actions) - 1

\* C8: the count an import returns is the number of documents of that
\* import the store has committed, a batch lost to a transport failure
\* counting zero.
C8_CountsCommitted ==
    \A k \in Kinds : result[k].returned => result[k].value = committed[k]

\* C9 as stated: documents built from the same report and record are equal,
\* whenever they were built.
C9_Deterministic ==
    \A a, b \in Entries : SameInput(a, b) => a._source = b._source

\* C9: documents built from the same report and record are equal, whenever
\* they were built, if every date field read for them is a date.
C9_DeterministicParseable ==
    \A a, b \in Entries :
        (SameInput(a, b) /\ DatesParse(a._source)) => a._source = b._source

C9_Witness ==
    \E a, b \in Entries :
        /\ SameInput(a, b)
        /\ DatesParse(a._source)
        /\ a.at # b.at
        /\ a._source.report_type = "aggregate"
        /\ AggRecord(a._source._source_full.report,
                     a._source._source_full.record).interval_begin.form = "iso"

-----------------------------------------------------------------------------
(* Properties of the two scripts together *)

\* C18: a document the aggregate import wrote from a record with an
\* alignment failure, with its report's begin-date inside the lookback window
\* and without a verdict, is among the hits of the next successful selection
\* query (the page being large enough for all candidates).
C18_IngestedSelected ==
    \A r \in Runs :
        ( /\ atQuery[r].done /\ atQuery[r].ok
          /\ Cardinality(atQuery[r].eligible \cup atQuery[r].due) <= BATCH_SIZE )
        => atQuery[r].due \subseteq HitIds(documents[r])

\* An import run has gone through both files without a transport failure.
CompleteRun ==
    /\ pcI = "done"
    /\ exitI = 0
    /\ \A k \in Kinds : result[k].returned /\ ~result[k].transport

\* C19: after a complete import run, whether or not the same files were
\* imported before (by a run that completed or by one that was cut short),
\* the store holds the documents of one complete run and no more.
C19_RerunSameStore ==
    CompleteRun => Len(store) = committed["aggregate"] + committed["forensic"]

====
